---- MODULE Spec2Model ----
(***************************************************************************)
(* A model of the Caddy "events.handlers.kafka" module (module.go).        *)
(*                                                                         *)
(* The state is one KafkaHandler value h (its exported configuration       *)
(* fields plus the unexported logger and writer), the caddyfile Dispenser  *)
(* the directive parser walks, the kafka.Writer's queue of messages that   *)
(* were accepted by WriteMessages and are not yet completed, and what the  *)
(* host observes: the value each method returned.                          *)
(*                                                                         *)
(* Go pointers and optional values are sequences of length 0 (nil) or 1.   *)
(* Go strings are TLA+ strings; error values are strings, "nil" for no     *)
(* error and "none" while the method has not been called.                  *)
(***************************************************************************)
EXTENDS Integers, Sequences, FiniteSets, TLC

VARIABLES
    phase,            \* where the host is in the module's life cycle
    h,                \* the KafkaHandler struct
    d,                \* the *caddyfile.Dispenser handed to UnmarshalCaddyfile
    val,              \* the directive name the parser's switch last dispatched on
    parseErr,         \* what UnmarshalCaddyfile returned
    provisionErr,     \* what Provision returned ("panic" when it panicked)
    validateErr,      \* what Validate returned
    lastCall,         \* the last Handle call: its event and what it returned
    nHandled,         \* number of Handle calls made so far
    queue,            \* messages the writer accepted and has not completed
    failed,           \* messages whose delivery the broker failed, after completion
    log               \* entries written through h.logger

vars == <<phase, h, d, val, parseErr, provisionErr, validateErr,
          lastCall, nHandled, queue, failed, log>>

-----------------------------------------------------------------------------
(* Bounds of the model.                                                    *)

\* Largest number of lines in a directive block.
MaxLines == 2

\* Largest number of Handle calls in one behaviour.
MaxHandles == 2

-----------------------------------------------------------------------------
(* Generic helpers for Go values.                                          *)

Nil == <<>>

Ptr(v) == <<v>>

IsNil(p) == Len(p) = 0

Deref(p) == p[1]

\* s[i], the i-th character of a string, as a one-character string.
CharAt(s, i) == SubSeq(s, i, i)

-----------------------------------------------------------------------------
(* The SASLAlgorithm values of the module.                                 *)

SASLMethodSHA256 == "sha256"

SASLMethodSHA512 == "sha512"

\* new(KafkaHandler): every field has Go's zero value.
NewKafkaHandler ==
    [ logger           |-> Nil,
      writer           |-> Nil,
      BootstrapServers |-> <<>>,
      Topic            |-> "",
      TLSEnabled       |-> FALSE,
      TLSNoVerify      |-> FALSE,
      SASLAuth         |-> FALSE,
      SASLAlgorithm    |-> "",
      SASLUsername     |-> "",
      SASLPassword     |-> "" ]

\* The exported (JSON-tagged) fields of a handler: its Configuration.
Config(hh) ==
    [ BootstrapServers |-> hh.BootstrapServers,
      Topic            |-> hh.Topic,
      TLSEnabled       |-> hh.TLSEnabled,
      TLSNoVerify      |-> hh.TLSNoVerify,
      SASLAuth         |-> hh.SASLAuth,
      SASLAlgorithm    |-> hh.SASLAlgorithm,
      SASLUsername     |-> hh.SASLUsername,
      SASLPassword     |-> hh.SASLPassword ]

-----------------------------------------------------------------------------
(* The caddyfile Dispenser, as UnmarshalCaddyfile uses it.  A token has a  *)
(* text and the line it stands on; the cursor is the index of the current  *)
(* token, 0 before the first one.                                          *)

Tok(text, line) == [Text |-> text, Line |-> line]

RECURSIVE LineTokens(_, _)
LineTokens(words, line) ==
    IF words = <<>> THEN <<>>
    ELSE <<Tok(Head(words), line)>> \o LineTokens(Tail(words), line)

RECURSIVE BlockTokens(_, _)
BlockTokens(block, line) ==
    IF block = <<>> THEN <<Tok("}", line)>>
    ELSE LineTokens(Head(block), line) \o BlockTokens(Tail(block), line + 1)

\* The segment the host hands to the module: `kafka {`, the lines, `}`.
SegmentTokens(block) ==
    <<Tok("kafka", 0), Tok("{", 0)>> \o BlockTokens(block, 1)

NewDispenser(tokens) == [tokens |-> tokens, cursor |-> 0, nesting |-> 0]

\* d.Val()
Val(dd) ==
    IF dd.cursor < 1 \/ dd.cursor > Len(dd.tokens) THEN ""
    ELSE dd.tokens[dd.cursor].Text

\* d.Next(): moves to the next token, whatever line it stands on.
DispenserNext(dd) ==
    IF dd.cursor < Len(dd.tokens)
    THEN [ok |-> TRUE,  d |-> [dd EXCEPT !.cursor = @ + 1]]
    ELSE [ok |-> FALSE, d |-> dd]

\* d.nextOnSameLine(): moves to the next token only if it is on this line.
NextOnSameLine(dd) ==
    IF dd.cursor < 1
    THEN [ok |-> TRUE, d |-> [dd EXCEPT !.cursor = @ + 1]]
    ELSE IF dd.cursor >= Len(dd.tokens)
    THEN [ok |-> FALSE, d |-> dd]
    ELSE IF dd.tokens[dd.cursor + 1].Line = dd.tokens[dd.cursor].Line
    THEN [ok |-> TRUE, d |-> [dd EXCEPT !.cursor = @ + 1]]
    ELSE [ok |-> FALSE, d |-> dd]

\* d.NextArg(): the next token of this line, unless it opens a block.
NextArg(dd) ==
    LET r == NextOnSameLine(dd) IN
    IF ~r.ok THEN [ok |-> FALSE, d |-> dd]
    ELSE IF Val(r.d) = "{"
    THEN [ok |-> FALSE, d |-> [r.d EXCEPT !.cursor = @ - 1]]
    ELSE r

\* d.Args(targets...): loads the next n arguments; vals holds the targets
\* assigned before the first missing argument.
RECURSIVE Args(_, _)
Args(dd, n) ==
    IF n = 0 THEN [ok |-> TRUE, d |-> dd, vals |-> <<>>]
    ELSE LET r == NextArg(dd) IN
         IF ~r.ok THEN [ok |-> FALSE, d |-> r.d, vals |-> <<>>]
         ELSE LET rest == Args(r.d, n - 1) IN
              [ok |-> rest.ok, d |-> rest.d, vals |-> <<Val(r.d)>> \o rest.vals]

\* d.NextBlock(0)
NextBlock(dd) ==
    IF dd.nesting > 0
    THEN LET n == DispenserNext(dd) IN
         IF ~n.ok THEN [ok |-> FALSE, d |-> dd]
         ELSE LET closing == IF Val(n.d) = "}" THEN NextOnSameLine(n.d)
                             ELSE [ok |-> TRUE, d |-> n.d]
                  opening == IF Val(closing.d) = "{" THEN NextOnSameLine(closing.d)
                             ELSE [ok |-> TRUE, d |-> closing.d]
                  after   == IF Val(n.d) = "}" /\ ~closing.ok
                             THEN [n.d EXCEPT !.nesting = @ - 1]
                             ELSE IF Val(closing.d) = "{" /\ ~opening.ok
                             THEN [closing.d EXCEPT !.nesting = @ + 1]
                             ELSE opening.d
              IN [ok |-> after.nesting > 0, d |-> after]
    ELSE LET s == NextOnSameLine(dd) IN
         IF ~s.ok THEN [ok |-> FALSE, d |-> dd]
         ELSE IF Val(s.d) # "{"
         THEN [ok |-> FALSE, d |-> [s.d EXCEPT !.cursor = @ - 1]]
         ELSE LET n == DispenserNext(s.d) IN
              IF Val(n.d) = "}" THEN [ok |-> FALSE, d |-> n.d]
              ELSE [ok |-> TRUE, d |-> [n.d EXCEPT !.nesting = @ + 1]]

-----------------------------------------------------------------------------
(* The string functions the parser calls.                                  *)

\* Index of the first occurrence of the character sep in s, 0 if none.
IndexOf(s, sep) ==
    IF \E i \in 1..Len(s) : CharAt(s, i) = sep
    THEN CHOOSE i \in 1..Len(s) :
            /\ CharAt(s, i) = sep
            /\ \A j \in 1..(i - 1) : CharAt(s, j) # sep
    ELSE 0

\* strings.Split(s, sep)
RECURSIVE Split(_, _)
Split(s, sep) ==
    LET i == IndexOf(s, sep) IN
    IF i = 0 THEN <<s>>
    ELSE <<SubSeq(s, 1, i - 1)>> \o Split(SubSeq(s, i + 1, Len(s)), sep)

WhiteSpace == {" ", "\t", "\n", "\r"}

\* strings.TrimSpace(s)
RECURSIVE TrimSpace(_)
TrimSpace(s) ==
    IF Len(s) = 0 THEN s
    ELSE IF CharAt(s, 1) \in WhiteSpace THEN TrimSpace(SubSeq(s, 2, Len(s)))
    ELSE IF CharAt(s, Len(s)) \in WhiteSpace THEN TrimSpace(SubSeq(s, 1, Len(s) - 1))
    ELSE s

\* The loop that appends strings.TrimSpace(item) for each item.
TrimAll(items) == [i \in 1..Len(items) |-> TrimSpace(items[i])]

-----------------------------------------------------------------------------
(* UnmarshalCaddyfile: the cases of the switch.  Each takes the handler    *)
(* and the dispenser standing on the directive name, and gives the         *)
(* handler and dispenser after the case with the error it returns ("nil"   *)
(* when the loop goes on).                                                 *)

Outcome(hh, dd, err) == [h |-> hh, d |-> dd, err |-> err]

\* case "topic"
CaseTopic(hh, dd) ==
    LET a == Args(dd, 1) IN
    IF ~a.ok THEN Outcome(hh, a.d, "ArgErr")
    ELSE Outcome([hh EXCEPT !.Topic = a.vals[1]], a.d, "nil")

\* The sasl_scram case, were SASLAuth set before the method is checked.
CaseSaslScramAuthFirst(hh, dd) ==
    LET a    == Args(dd, 3)
        got  == Len(a.vals)
        h1   == [hh EXCEPT
                   !.SASLUsername = IF got >= 2 THEN a.vals[2] ELSE @,
                   !.SASLPassword = IF got >= 3 THEN a.vals[3] ELSE @]
        h2   == [h1 EXCEPT !.SASLAuth = TRUE]
        mech == a.vals[1]
    IN  IF ~a.ok THEN Outcome(h1, a.d, "ArgErr")
        ELSE IF mech = "sha256"
        THEN Outcome([h2 EXCEPT !.SASLAlgorithm = SASLMethodSHA256], a.d, "nil")
        ELSE IF mech = "sha512"
        THEN Outcome([h2 EXCEPT !.SASLAlgorithm = SASLMethodSHA512], a.d, "nil")
        ELSE Outcome(h2, a.d, "unsupported SCRAM method")

\* case "sasl_scram"
CaseSaslScram(hh, dd) ==
    LET a    == Args(dd, 3)
        got  == Len(a.vals)
        h1   == [hh EXCEPT
                   !.SASLUsername = IF got >= 2 THEN a.vals[2] ELSE @,
                   !.SASLPassword = IF got >= 3 THEN a.vals[3] ELSE @]
        mech == a.vals[1]
    IN  IF ~a.ok THEN Outcome(h1, a.d, "ArgErr")
        ELSE IF mech = "sha256"
        THEN Outcome([h1 EXCEPT !.SASLAlgorithm = SASLMethodSHA256,
                                !.SASLAuth = TRUE], a.d, "nil")
        ELSE IF mech = "sha512"
        THEN Outcome([h1 EXCEPT !.SASLAlgorithm = SASLMethodSHA512,
                                !.SASLAuth = TRUE], a.d, "nil")
        ELSE Outcome(h1, a.d, "unsupported SCRAM method")

\* case "tls"
CaseTls(hh, dd) ==
    LET a == Args(dd, 1) IN
    IF ~a.ok THEN Outcome(hh, a.d, "ArgErr")
    ELSE IF a.vals[1] = "on"
    THEN Outcome([hh EXCEPT !.TLSEnabled = TRUE], a.d, "nil")
    ELSE IF a.vals[1] = "off"
    THEN Outcome([hh EXCEPT !.TLSEnabled = FALSE], a.d, "nil")
    ELSE Outcome(hh, a.d, "invalid value for tls")

\* case "tls_no_verify"
CaseTlsNoVerify(hh, dd) ==
    Outcome([hh EXCEPT !.TLSNoVerify = TRUE], dd, "nil")

\* case "bootstrap_servers"
CaseBootstrapServers(hh, dd) ==
    LET n == DispenserNext(dd) IN
    IF ~n.ok THEN Outcome(hh, n.d, "ArgErr")
    ELSE Outcome([hh EXCEPT !.BootstrapServers = TrimAll(Split(Val(n.d), ","))],
                 n.d, "nil")

\* default
CaseDefault(hh, dd) ==
    Outcome(hh, dd, "unsupported argument")

\* switch val := d.Val(); val { ... }
Switch(hh, dd) ==
    CASE Val(dd) = "topic"             -> CaseTopic(hh, dd)
      [] Val(dd) = "sasl_scram"        -> CaseSaslScram(hh, dd)
      [] Val(dd) = "tls"               -> CaseTls(hh, dd)
      [] Val(dd) = "tls_no_verify"     -> CaseTlsNoVerify(hh, dd)
      [] Val(dd) = "bootstrap_servers" -> CaseBootstrapServers(hh, dd)
      [] OTHER                         -> CaseDefault(hh, dd)

-----------------------------------------------------------------------------
(* The directive blocks the model parses.                                  *)

Lines ==
    { <<"topic", "events">>,
      <<"topic">>,
      <<"sasl_scram", "sha512", "u", "p">>,
      <<"sasl_scram", "sha256", "u", "p">>,
      <<"sasl_scram", "md5", "u", "p">>,
      <<"sasl_scram", "sha256", "u">>,
      <<"tls", "on">>,
      <<"tls", "off">>,
      <<"tls", "maybe">>,
      <<"tls_no_verify">>,
      <<"bootstrap_servers", "localhost:9092, b:9092">>,
      <<"bootstrap_servers">>,
      <<"foo", "bar">>,
      <<"foo">> }

Blocks == UNION { [1..n -> Lines] : n \in 0..MaxLines }

-----------------------------------------------------------------------------
(* Configurations loaded from JSON: any value of each tagged field.        *)

JSONConfigs ==
    [ BootstrapServers : { <<>>, <<"127.0.0.1:9092">> },
      Topic            : { "", "caddy-events" },
      TLSEnabled       : BOOLEAN,
      TLSNoVerify      : BOOLEAN,
      SASLAuth         : BOOLEAN,
      SASLAlgorithm    : { "", "sha256", "sha512", "md5" },
      SASLUsername     : { "", "myuser", "my\tuser" },
      SASLPassword     : { "", "mypassword" } ]

\* A new handler whose tagged fields are decoded from cfg.
HandlerFromJSON(cfg) ==
    [ logger           |-> Nil,
      writer           |-> Nil,
      BootstrapServers |-> cfg.BootstrapServers,
      Topic            |-> cfg.Topic,
      TLSEnabled       |-> cfg.TLSEnabled,
      TLSNoVerify      |-> cfg.TLSNoVerify,
      SASLAuth         |-> cfg.SASLAuth,
      SASLAlgorithm    |-> cfg.SASLAlgorithm,
      SASLUsername     |-> cfg.SASLUsername,
      SASLPassword     |-> cfg.SASLPassword ]

-----------------------------------------------------------------------------
(* Provision                                                               *)

\* Characters SASLprep prohibits (ASCII control characters), for which
\* scram.Mechanism returns an error.
ProhibitedChars == { "\t", "\n", "\r" }

HasProhibited(s) == \E i \in 1..Len(s) : CharAt(s, i) \in ProhibitedChars

\* scram.Mechanism(method, username, password)
ScramMechanism(method, username, password) ==
    IF HasProhibited(username) \/ HasProhibited(password)
    THEN [err |-> "saslprep", mechanism |-> Nil]
    ELSE [err |-> "nil",
          mechanism |-> Ptr([Algorithm |-> method,
                             Username  |-> username,
                             Password  |-> password])]

\* The TLS configuration, were verification skipped whenever TLS is on.
TLSConfigAlwaysInsecure(hh) == [InsecureSkipVerify |-> TRUE]

\* &tls.Config{} with InsecureSkipVerify set when h.TLSNoVerify
TLSConfig(hh) == [InsecureSkipVerify |-> hh.TLSNoVerify]

\* &kafka.Writer{Addr: kafka.TCP(h.BootstrapServers...), Async: true} with
\* its Transport; the fields the code leaves unset are nil.
NewWriter(hh, tlsConfig, sasl) ==
    [ Addr        |-> hh.BootstrapServers,
      Async       |-> TRUE,
      Completion  |-> Nil,
      ErrorLogger |-> Nil,
      Logger      |-> Nil,
      Transport   |-> [TLS |-> tlsConfig, SASL |-> sasl] ]

\* The handler after Provision and what Provision returns; err is "panic"
\* when the call does not return.
Provision(hh) ==
    LET tlsConfig == IF hh.TLSEnabled THEN Ptr(TLSConfig(hh)) ELSE Nil
        h1 == [hh EXCEPT !.logger = Ptr("events.handlers.kafka"),
                         !.writer = Ptr(NewWriter(hh, tlsConfig, Nil))]
    IN  IF ~hh.SASLAuth THEN [h |-> h1, err |-> "nil"]
        ELSE IF hh.SASLAlgorithm \notin {SASLMethodSHA256, SASLMethodSHA512}
        THEN [h |-> h1, err |-> "invalid sasl algorithm"]
        ELSE LET m == ScramMechanism(hh.SASLAlgorithm,
                                     hh.SASLUsername, hh.SASLPassword)
             IN  IF m.err # "nil" THEN [h |-> h1, err |-> "panic"]
                 ELSE [h |-> [h1 EXCEPT !.writer =
                                Ptr(NewWriter(hh, tlsConfig, m.mechanism))],
                       err |-> "nil"]

-----------------------------------------------------------------------------
(* Validate                                                                *)

\* Validate, were it not to check the password.
ValidateWithoutPassword(hh) ==
    IF Len(hh.BootstrapServers) = 0 THEN "kafka bootstrap_servers missing"
    ELSE IF hh.Topic = "" THEN "kafka topic missing"
    ELSE IF hh.SASLAuth /\ hh.SASLUsername = "" THEN "kafka missing sasl username"
    ELSE IF hh.SASLAuth /\ hh.SASLAlgorithm # "sha256" /\ hh.SASLAlgorithm # "sha512"
    THEN "kafka invalid sasl algorithm"
    ELSE "nil"

\* Validate, were it not to check the algorithm.
ValidateWithoutAlgorithm(hh) ==
    IF Len(hh.BootstrapServers) = 0 THEN "kafka bootstrap_servers missing"
    ELSE IF hh.Topic = "" THEN "kafka topic missing"
    ELSE IF hh.SASLAuth /\ hh.SASLUsername = "" THEN "kafka missing sasl username"
    ELSE IF hh.SASLAuth /\ hh.SASLPassword = "" THEN "kafka missing sasl username"
    ELSE "nil"

\* Validate returns the first of these errors, or nil.
Validate(hh) ==
    IF Len(hh.BootstrapServers) = 0 THEN "kafka bootstrap_servers missing"
    ELSE IF hh.Topic = "" THEN "kafka topic missing"
    ELSE IF hh.SASLAuth /\ hh.SASLUsername = "" THEN "kafka missing sasl username"
    ELSE IF hh.SASLAuth /\ hh.SASLPassword = "" THEN "kafka missing sasl username"
    ELSE IF hh.SASLAuth /\ hh.SASLAlgorithm # "sha256" /\ hh.SASLAlgorithm # "sha512"
    THEN "kafka invalid sasl algorithm"
    ELSE "nil"

-----------------------------------------------------------------------------
(* Host events and their JSON serialization.                               *)

\* The events the host emits: an identifier, a timestamp (an instant,
\* identified by its year) and a payload (as JSON text).  The last one has
\* a timestamp that JSON cannot represent.
Events ==
    { [id |-> "abc",   ts |-> 2023,  data |-> "{\"renewal\":false}"],
      [id |-> "a\"b", ts |-> 987,   data |-> "null"],
      [id |-> "abc",   ts |-> 10000, data |-> "null"] }

\* e.CloudEvent()
CloudEvent(e) ==
    [ ID              |-> e.id,
      Source          |-> "tls",
      SpecVersion     |-> "1.0",
      Type            |-> "cert_obtained",
      Time            |-> e.ts,
      DataContentType |-> "application/json",
      Data            |-> e.data ]

\* []byte(s)
Bytes(s) == [i \in 1..Len(s) |-> CharAt(s, i)]

Digits == "0123456789"

Digit(n) == CharAt(Digits, n + 1)

\* The four-digit year of an RFC 3339 timestamp.
FormatYear(y) ==
    Digit(y \div 1000) \o Digit((y \div 100) % 10)
        \o Digit((y \div 10) % 10) \o Digit(y % 10)

\* time.Time.MarshalJSON
TimeMarshalJSON(t) ==
    IF t < 0 \/ t > 9999
    THEN [err |-> "year outside of range [0,9999]", text |-> ""]
    ELSE [err |-> "nil",
          text |-> "\"" \o FormatYear(t) \o "-08-14T18:09:35Z\""]

\* The JSON escaping of a string's characters.
RECURSIVE EscapeJSON(_)
EscapeJSON(s) ==
    IF Len(s) = 0 THEN ""
    ELSE (IF CharAt(s, 1) \in {"\"", "\\"} THEN "\\" \o CharAt(s, 1)
          ELSE CharAt(s, 1)) \o EscapeJSON(SubSeq(s, 2, Len(s)))

\* A Go string as a JSON string.
StringMarshalJSON(s) == "\"" \o EscapeJSON(s) \o "\""

\* json.Marshal(cloudEvent): the members of the JSON object in field order,
\* each a name with the JSON text of its value.
JSONMarshal(ce) ==
    LET t == TimeMarshalJSON(ce.Time) IN
    IF t.err # "nil" THEN [err |-> t.err, data |-> <<>>]
    ELSE [err  |-> "nil",
          data |-> << <<"id", StringMarshalJSON(ce.ID)>>,
                      <<"source", StringMarshalJSON(ce.Source)>>,
                      <<"specversion", StringMarshalJSON(ce.SpecVersion)>>,
                      <<"type", StringMarshalJSON(ce.Type)>>,
                      <<"time", t.text>>,
                      <<"datacontenttype", StringMarshalJSON(ce.DataContentType)>>,
                      <<"data", ce.Data>> >>]

-----------------------------------------------------------------------------
(* Handle                                                                  *)

\* The message, were its key taken from the event's type.
MessageKeyedByType(hh, e, data) ==
    [ Key   |-> Bytes(CloudEvent(e).Type),
      Value |-> data,
      Topic |-> hh.Topic,
      Time  |-> CloudEvent(e).Time ]

\* The kafka.Message Handle builds.
Message(hh, e, data) ==
    [ Key   |-> Bytes(CloudEvent(e).ID),
      Value |-> data,
      Topic |-> hh.Topic,
      Time  |-> CloudEvent(e).Time ]

\* h.writer.WriteMessages(ctx, msg) of an asynchronous writer: the message
\* is queued and nil returned, or a local failure (werr) is returned.
WriteMessages(q, msg, werr) ==
    IF werr = "nil" THEN [queue |-> Append(q, msg), err |-> "nil"]
    ELSE [queue |-> q, err |-> werr]

\* Handle, were it to replace the writer after a failed write.
HandleReplacingWriter(hh, q, e, werr) ==
    LET m == JSONMarshal(CloudEvent(e)) IN
    IF m.err # "nil"
    THEN [h |-> hh, queue |-> q, err |-> "failed to serialize event data"]
    ELSE LET w == WriteMessages(q, Message(hh, e, m.data), werr) IN
         IF w.err # "nil"
         THEN [h |-> [hh EXCEPT !.writer = Ptr(NewWriter(hh, Nil, Nil))],
               queue |-> <<>>, err |-> "failed to write event to Kafka"]
         ELSE [h |-> hh, queue |-> w.queue, err |-> "nil"]

\* Handle(ctx, e): what it returns, with the handler and the writer's queue
\* after it.
Handle(hh, q, e, werr) ==
    LET m == JSONMarshal(CloudEvent(e)) IN
    IF m.err # "nil"
    THEN [h |-> hh, queue |-> q, err |-> "failed to serialize event data"]
    ELSE LET w == WriteMessages(q, Message(hh, e, m.data), werr) IN
         IF w.err # "nil"
         THEN [h |-> hh, queue |-> w.queue, err |-> "failed to write event to Kafka"]
         ELSE [h |-> hh, queue |-> w.queue, err |-> "nil"]

\* Local failures of WriteMessages: none, or the context was cancelled.
WriteErrors == { "nil", "context canceled" }

-----------------------------------------------------------------------------
(* The state machine.                                                      *)

Init ==
    /\ phase = "new"
    /\ h = NewKafkaHandler
    /\ d = Nil
    /\ val = ""
    /\ parseErr = "none"
    /\ provisionErr = "none"
    /\ validateErr = "none"
    /\ lastCall = Nil
    /\ nHandled = 0
    /\ queue = <<>>
    /\ failed = {}
    /\ log = <<>>

\* UnmarshalCaddyfile is entered with a dispenser on the module's segment:
\* `if !d.Next() { return d.ArgErr() }`.
UnmarshalCaddyfileEnter(block) ==
    /\ phase = "new"
    /\ LET n == DispenserNext(NewDispenser(SegmentTokens(block))) IN
       /\ d' = Ptr(n.d)
       /\ parseErr' = IF n.ok THEN "none" ELSE "ArgErr"
       /\ phase' = IF n.ok THEN "parsing" ELSE "rejected"
    /\ UNCHANGED <<h, val, provisionErr, validateErr, lastCall, nHandled,
                   queue, failed, log>>

\* One iteration of `for d.NextBlock(0) { switch ... }`, or the return that
\* follows the loop.
UnmarshalCaddyfileLoop ==
    /\ phase = "parsing"
    /\ LET nb == NextBlock(Deref(d)) IN
       IF ~nb.ok
       THEN /\ d' = Ptr(nb.d)
            /\ parseErr' = "nil"
            /\ phase' = "parsed"
            /\ UNCHANGED <<h, val>>
       ELSE LET o == Switch(h, nb.d) IN
            /\ val' = Val(nb.d)
            /\ h' = o.h
            /\ d' = Ptr(o.d)
            /\ parseErr' = IF o.err = "nil" THEN "none" ELSE o.err
            /\ phase' = IF o.err = "nil" THEN "parsing" ELSE "rejected"
    /\ UNCHANGED <<provisionErr, validateErr, lastCall, nHandled,
                   queue, failed, log>>

\* The adapted configuration is encoded as JSON and loaded into the new
\* handler the host provisions.
LoadAdapted ==
    /\ phase = "parsed"
    /\ h' = HandlerFromJSON(Config(h))
    /\ d' = Nil
    /\ val' = ""
    /\ parseErr' = "none"
    /\ phase' = "loaded"
    /\ UNCHANGED <<provisionErr, validateErr, lastCall, nHandled,
                   queue, failed, log>>

\* The host loads a handler from a JSON configuration.
LoadJSON(cfg) ==
    /\ phase = "new"
    /\ h' = HandlerFromJSON(cfg)
    /\ phase' = "loaded"
    /\ UNCHANGED <<d, val, parseErr, provisionErr, validateErr, lastCall,
                   nHandled, queue, failed, log>>

\* The host calls Provision; a panic ends the process.
DoProvision ==
    /\ phase = "loaded"
    /\ provisionErr = "none"
    /\ validateErr \in {"none", "nil"}
    /\ LET r == Provision(h) IN
       /\ h' = r.h
       /\ provisionErr' = r.err
       /\ phase' = IF r.err = "panic" THEN "crashed" ELSE phase
    /\ UNCHANGED <<d, val, parseErr, validateErr, lastCall, nHandled,
                   queue, failed, log>>

\* The host calls Validate.
DoValidate ==
    /\ phase = "loaded"
    /\ validateErr = "none"
    /\ provisionErr \in {"none", "nil"}
    /\ validateErr' = Validate(h)
    /\ UNCHANGED <<phase, h, d, val, parseErr, provisionErr, lastCall,
                   nHandled, queue, failed, log>>

\* The module is active once it is provisioned and validated.
Active ==
    /\ phase = "loaded"
    /\ provisionErr = "nil"
    /\ validateErr = "nil"

\* The host's event bus calls Handle with an event.
DoHandle(e, werr) ==
    /\ Active
    /\ nHandled < MaxHandles
    /\ LET r == Handle(h, queue, e, werr) IN
       /\ h' = r.h
       /\ queue' = r.queue
       /\ lastCall' = Ptr([e |-> e, err |-> r.err])
    /\ nHandled' = nHandled + 1
    /\ UNCHANGED <<phase, d, val, parseErr, provisionErr, validateErr,
                   failed, log>>

\* What the writer's completion path writes to the module's log when the
\* delivery of msg ends with err: it reports to its Completion callback and
\* its ErrorLogger, when the writer has them.
CompletionLog(w, entries, msg, err) ==
    IF err # "nil" /\ (~IsNil(w.Completion) \/ ~IsNil(w.ErrorLogger))
    THEN Append(entries, msg)
    ELSE entries

\* The writer completes the oldest queued message: the broker took it, or
\* its delivery failed.
Complete(err) ==
    /\ Active
    /\ queue # <<>>
    /\ queue' = Tail(queue)
    /\ failed' = IF err = "nil" THEN failed ELSE failed \cup {Head(queue)}
    /\ log' = CompletionLog(Deref(h.writer), log, Head(queue), err)
    /\ UNCHANGED <<phase, h, d, val, parseErr, provisionErr, validateErr,
                   lastCall, nHandled>>

DeliveryErrors == { "nil", "broker error" }

Next ==
    \/ \E block \in Blocks : UnmarshalCaddyfileEnter(block)
    \/ UnmarshalCaddyfileLoop
    \/ LoadAdapted
    \/ \E cfg \in JSONConfigs : LoadJSON(cfg)
    \/ DoProvision
    \/ DoValidate
    \/ \E e \in Events, werr \in WriteErrors : DoHandle(e, werr)
    \/ \E err \in DeliveryErrors : Complete(err)

Spec == Init /\ [][Next]_vars

-----------------------------------------------------------------------------
(* What a consumer of the topic decodes from a message value.              *)

\* The JSON text of the member called name.
JSONMember(data, name) ==
    data[CHOOSE i \in 1..Len(data) : data[i][1] = name][2]

RECURSIVE UnescapeJSON(_)
UnescapeJSON(s) ==
    IF Len(s) = 0 THEN ""
    ELSE IF CharAt(s, 1) = "\\"
    THEN CharAt(s, 2) \o UnescapeJSON(SubSeq(s, 3, Len(s)))
    ELSE CharAt(s, 1) \o UnescapeJSON(SubSeq(s, 2, Len(s)))

\* The Go string a JSON string decodes to.
StringUnmarshalJSON(text) == UnescapeJSON(SubSeq(text, 2, Len(text) - 1))

DigitValue(c) == CHOOSE n \in 0..9 : Digit(n) = c

\* The instant (its year) an RFC 3339 JSON string decodes to.
TimeUnmarshalJSON(text) ==
    DigitValue(CharAt(text, 2)) * 1000 + DigitValue(CharAt(text, 3)) * 100
        + DigitValue(CharAt(text, 4)) * 10 + DigitValue(CharAt(text, 5))

-----------------------------------------------------------------------------
(* Properties.                                                             *)

Recognized == {"topic", "sasl_scram", "tls", "tls_no_verify", "bootstrap_servers"}

RecognizedAlgorithms == {"sha256", "sha512"}

\* The names of the directives of a segment: the first token of each line
\* of the block.
DirectiveNames(tokens) ==
    { tokens[i].Text : i \in { j \in 3..Len(tokens) :
                                 /\ tokens[j].Line # tokens[j - 1].Line
                                 /\ tokens[j].Text # "}" } }

\* The arguments of the directive the dispenser stands on: the texts of the
\* tokens that follow it on its line.
RECURSIVE RestOfLine(_, _, _)
RestOfLine(tokens, line, i) ==
    IF i > Len(tokens) \/ tokens[i].Line # line THEN <<>>
    ELSE <<tokens[i].Text>> \o RestOfLine(tokens, line, i + 1)

DirectiveArgs(dd) ==
    RestOfLine(dd.tokens, dd.tokens[dd.cursor].Line, dd.cursor + 1)

\* C1: every Handle call that returns nil has appended exactly one message
\* to the writer's queue; its key is the bytes of the event's identifier,
\* its value decodes to the event's id, time and data, its topic is the
\* handler's topic and its time is the event's timestamp.
C1_HandleSubmitsEnvelope ==
    [][ (nHandled' = nHandled + 1 /\ Deref(lastCall').err = "nil") =>
          LET e == Deref(lastCall').e
              m == queue'[Len(queue')]
          IN  /\ Len(queue') = Len(queue) + 1
              /\ SubSeq(queue', 1, Len(queue)) = queue
              /\ Len(m.Key) = Len(e.id)
              /\ \A i \in 1..Len(e.id) : m.Key[i] = CharAt(e.id, i)
              /\ StringUnmarshalJSON(JSONMember(m.Value, "id")) = e.id
              /\ TimeUnmarshalJSON(JSONMember(m.Value, "time")) = e.ts
              /\ JSONMember(m.Value, "data") = e.data
              /\ m.Topic = h.Topic
              /\ m.Time = e.ts ]_vars

\* A Handle call returned nil for the event whose identifier needs escaping
\* and its message is the newest in the queue.
C1_Witness ==
    /\ ~IsNil(lastCall)
    /\ Deref(lastCall).err = "nil"
    /\ Deref(lastCall).e.id = "a\"b"
    /\ queue # <<>>
    /\ queue[Len(queue)].Key = <<"a", "\"", "b">>

\* C2: Validate returns nil exactly when bootstrap_servers is non-empty,
\* topic is non-empty, and SASL is disabled or has a non-empty username, a
\* non-empty password and algorithm sha256 or sha512.
C2_ValidateIff ==
    validateErr # "none" =>
        ( validateErr = "nil" <=>
            /\ Len(h.BootstrapServers) > 0
            /\ h.Topic # ""
            /\ \/ ~h.SASLAuth
               \/ /\ h.SASLUsername # ""
                  /\ h.SASLPassword # ""
                  /\ h.SASLAlgorithm \in RecognizedAlgorithms )

\* Validate rejected a configuration that violates one invariant only: the
\* password is empty.
C2_Witness ==
    /\ validateErr \notin {"none", "nil"}
    /\ Len(h.BootstrapServers) > 0
    /\ h.Topic # ""
    /\ h.SASLAuth
    /\ h.SASLUsername # ""
    /\ h.SASLPassword = ""
    /\ h.SASLAlgorithm = "sha512"

\* C3: when SASL is enabled and the construction of the mechanism fails,
\* Provision returns an error; it does not panic.
C3_MechanismFailureIsReturned ==
    ( /\ provisionErr # "none"
      /\ h.SASLAuth
      /\ h.SASLAlgorithm \in RecognizedAlgorithms
      /\ ScramMechanism(h.SASLAlgorithm, h.SASLUsername, h.SASLPassword).err # "nil" )
    => provisionErr \notin {"nil", "panic"}

\* C4: every message whose delivery failed after Handle returned nil for it
\* is recorded in the module's log by the writer's completion path.
C4_DeliveryFailuresLogged ==
    \A m \in failed : \E i \in 1..Len(log) : log[i] = m

\* C5, as stated: Validate rejects every configuration whose algorithm is
\* md5, whatever its other (valid) fields.
C5_UnrecognizedAlgorithmRejected ==
    ( /\ validateErr # "none"
      /\ h.SASLAlgorithm = "md5"
      /\ Len(h.BootstrapServers) > 0
      /\ h.Topic # ""
      /\ h.SASLAuth => (h.SASLUsername # "" /\ h.SASLPassword # "") )
    => validateErr # "nil"

\* C5, amended: Validate rejects every configuration with SASL enabled
\* whose algorithm is neither sha256 nor sha512, even when every other field
\* is valid.
C5_UnrecognizedAlgorithmRejectedWithSASL ==
    ( /\ validateErr # "none"
      /\ h.SASLAuth
      /\ h.SASLAlgorithm \notin RecognizedAlgorithms )
    => validateErr # "nil"

\* Validate rejected md5 in a configuration that is valid otherwise.
C5_Witness ==
    /\ validateErr = "kafka invalid sasl algorithm"
    /\ h.SASLAlgorithm = "md5"
    /\ h.SASLAuth
    /\ h.SASLUsername # ""
    /\ h.SASLPassword # ""
    /\ Len(h.BootstrapServers) > 0
    /\ h.Topic # ""

\* C6: the writer's transport skips peer verification only if the
\* configuration has TLS enabled and tls_no_verify set; tls_no_verify is
\* false in a new handler, and while a block is parsed it is true only if a
\* tls_no_verify token was read.
C6_SkipVerifyOnlyWhenConfigured ==
    /\ ( /\ ~IsNil(h.writer)
         /\ ~IsNil(Deref(h.writer).Transport.TLS)
         /\ Deref(Deref(h.writer).Transport.TLS).InsecureSkipVerify )
       => (h.TLSEnabled /\ h.TLSNoVerify)
    /\ phase = "new" => ~h.TLSNoVerify
    /\ (phase \in {"parsing", "parsed", "rejected"} /\ h.TLSNoVerify)
       => \E i \in 1..Deref(d).cursor : Deref(d).tokens[i].Text = "tls_no_verify"

\* A provisioned writer skips peer verification.
C6_Witness ==
    /\ ~IsNil(h.writer)
    /\ ~IsNil(Deref(h.writer).Transport.TLS)
    /\ Deref(Deref(h.writer).Transport.TLS).InsecureSkipVerify
    /\ provisionErr = "nil"

\* C7: a block with a directive whose name is not recognized is never
\* parsed without error.
C7_UnknownDirectiveRejected ==
    phase = "parsed" => DirectiveNames(Deref(d).tokens) \subseteq Recognized

\* C8: when the parser reaches a sasl_scram directive, then with three
\* arguments and algorithm sha256 or sha512 it sets sasl_auth, the algorithm,
\* the username and the password and goes on; otherwise it fails and leaves
\* sasl_auth as it was.
C8_SaslScramDirective ==
    [][ ( /\ phase = "parsing"
          /\ NextBlock(Deref(d)).ok
          /\ Val(NextBlock(Deref(d)).d) = "sasl_scram" ) =>
          LET args == DirectiveArgs(NextBlock(Deref(d)).d) IN
          IF Len(args) >= 3 /\ args[1] \in RecognizedAlgorithms
          THEN /\ h'.SASLAuth
               /\ h'.SASLAlgorithm = args[1]
               /\ h'.SASLUsername = args[2]
               /\ h'.SASLPassword = args[3]
               /\ parseErr' = "none"
          ELSE /\ parseErr' \notin {"none", "nil"}
               /\ phase' = "rejected"
               /\ h'.SASLAuth = h.SASLAuth ]_vars

\* A sasl_scram directive was accepted and a later one, with an unsupported
\* algorithm, was rejected.
C8_Witness ==
    /\ val = "sasl_scram"
    /\ parseErr = "unsupported SCRAM method"
    /\ h.SASLAuth
    /\ h.SASLAlgorithm = "sha512"
    /\ h.SASLUsername = "u"
    /\ h.SASLPassword = "p"

\* C9: after Provision returned an error the handler holds no writer.
C9_FailedProvisionHoldsNoProducer ==
    provisionErr \notin {"none", "nil", "panic"} => IsNil(h.writer)

\* C10: a Handle call, whatever it returns, leaves the handler (its writer
\* and every configuration field) as it was, and a call that fails leaves
\* the writer's queue as it was.
C10_HandleLeavesHandler ==
    [][ nHandled' # nHandled =>
          /\ h' = h
          /\ Deref(lastCall').err # "nil" => queue' = queue ]_vars

\* A Handle call failed to write after an earlier one had queued a message.
C10_Witness ==
    /\ nHandled > 1
    /\ ~IsNil(lastCall)
    /\ Deref(lastCall).err = "failed to write event to Kafka"
    /\ queue # <<>>

====
